---- MODULE Spec2Model ----
(***************************************************************************)
(* Model of api/orders-create.js: a webhook handler that verifies the      *)
(* HMAC of an order-creation event, fetches the order and its originating  *)
(* draft from the shop's Admin API, and copies the allow-listed            *)
(* note_attributes of the draft onto the order with a PUT.                 *)
(*                                                                         *)
(* The file holds two revisions of the handler: the plain one (lines       *)
(* 1-137) and the tagged one (lines 139-305, which adds a tag filter).     *)
(* `variant` says which revision is deployed.                              *)
(*                                                                         *)
(* Conventions.  A JavaScript value that may be undefined is a sequence of *)
(* length at most one: <<>> is undefined, <<v>> is v.  Strings whose       *)
(* bytes matter (request bodies, tag strings) are sequences of one-        *)
(* character strings; the signature header and the digest are sequences    *)
(* of byte values.                                                         *)
(***************************************************************************)
EXTENDS Integers, Sequences, FiniteSets, TLC

\* ------------------------------------------------------------------ bounds

\* Number of invocations of the handler the model holds.
NumInv == 2
\* Longest note_attributes list the shop serves for an order or a draft.
MaxAttrs == 2
\* Longest list given to mergeNoteAttributes when it is checked on its own.
MaxLen == 2
\* Length of a digest, in characters (44 for a real base64 SHA-256 digest).
DigestLen == 3
\* Number of writes of another client of the Admin API to the shared order.
MaxOther == 1

Invs == 1 .. NumInv

\* ------------------------------------------------------------ JS values

Undefined == <<>>
Some(v) == <<v>>

\* JavaScript truthiness of an optional string / optional id.  An id (a
\* scalar of a JSON document) is written as its JSON text: the number 1 is
\* "1", the number 0 is "0", the empty string is "\"\"", null is "null".
TruthyStr(o) == o # Undefined /\ o[1] # <<>>
TruthyTxt(o) == o # Undefined /\ o[1] # ""
TruthyNum(o) == o # Undefined /\ o[1] \notin {"0", "\"\"", "null"}

\* The sequences over S of length at most n.
RECURSIVE SeqsUpTo(_, _)
SeqsUpTo(S, n) ==
    IF n = 0 THEN {<<>>}
    ELSE LET shorter == SeqsUpTo(S, n - 1)
         IN  shorter \cup {Append(s, x) : s \in {t \in shorter : Len(t) = n - 1}, x \in S}

\* ------------------------------------------------------- request bodies

BodyOrder1 == <<"{", "\"", "i", "d", "\"", ":", "1", "}">>   \* {"id":1}
BodyOrder0 == <<"{", "\"", "i", "d", "\"", ":", "0", "}">>   \* {"id":0}
BodyNoId   == <<"{", "}">>                                    \* {}
BodyBad    == <<"{", "\"", "i", "d", "\"", ":", "1", "]">>   \* {"id":1]

BodyIdNull == <<"{", "\"", "i", "d", "\"", ":", "n", "u", "l", "l", "}">>   \* {"id":null}
BodyIdEmpty == <<"{", "\"", "i", "d", "\"", ":", "\"", "\"", "}">>           \* {"id":""}

BodyList == <<BodyOrder1, BodyOrder0, BodyNoId, BodyBad, BodyIdNull, BodyIdEmpty>>
Bodies == {BodyList[k] : k \in 1 .. Len(BodyList)}

\* JSON.parse(raw.toString("utf8")) followed by order?.id, on the bodies above:
\* ok is FALSE when JSON.parse throws, id is the parsed event's id.
JSONparse(raw) ==
    CASE raw = BodyOrder1  -> [ok |-> TRUE,  id |-> Some("1")]
      [] raw = BodyOrder0  -> [ok |-> TRUE,  id |-> Some("0")]
      [] raw = BodyNoId    -> [ok |-> TRUE,  id |-> Undefined]
      [] raw = BodyIdNull  -> [ok |-> TRUE,  id |-> Some("null")]
      [] raw = BodyIdEmpty -> [ok |-> TRUE,  id |-> Some("\"\"")]
      [] OTHER             -> [ok |-> FALSE, id |-> Undefined]

\* ------------------------------------------------------------- signature

\* Values of process.env.WEBHOOK_SECRET: unset, empty, or a secret.
Secrets == {Undefined, Some(""), Some("s1")}
\* Keys a sender may sign with.
Keys == {"", "s1", "s2"}

KeyCode(k) == CASE k = "" -> 0 [] k = "s1" -> 1 [] OTHER -> 2
BodyCode(b) == CHOOSE k \in 1 .. Len(BodyList) : BodyList[k] = b

\* crypto.createHmac("sha256", secret).update(raw).digest("base64"): the keyed
\* hash is taken as injective in (secret, raw) on the bounded sets; the digest
\* always has DigestLen characters.
createHmac(k, raw) ==
    [j \in 1 .. DigestLen |->
        IF j = 1 THEN KeyCode(k) ELSE IF j = 2 THEN BodyCode(raw) ELSE 0]

Digests == {createHmac(k, b) : k \in Keys, b \in Bodies}

\* Values of req.headers["x-shopify-hmac-sha256"]: absent, empty, a digest, a
\* digest with one character cut off, a digest with one character added.
HeaderStrings ==
    {<<>>} \cup Digests
           \cup {SubSeq(d, 1, Len(d) - 1) : d \in {createHmac("s1", BodyOrder1)}}
           \cup {Append(d, 0) : d \in {createHmac("s1", BodyOrder1)}}
Headers == {Undefined} \cup {Some(h) : h \in HeaderStrings}

\* crypto.timingSafeEqual on two buffers of equal length.
cryptoTimingSafeEqual_firstByte(ab, bb) == Len(ab) = 0 \/ ab[1] = bb[1]

cryptoTimingSafeEqual(ab, bb) == \A j \in 1 .. Len(ab) : ab[j] = bb[j]

timingSafeEqual_noLength(a, b) ==
    LET ab == IF TruthyStr(a) THEN a[1] ELSE <<>>
        bb == IF TruthyStr(b) THEN b[1] ELSE <<>>
    IN  \A j \in 1 .. (IF Len(ab) < Len(bb) THEN Len(ab) ELSE Len(bb)) : ab[j] = bb[j]

\* timingSafeEqual(a, b): a || "" and b || "" as buffers, unequal lengths
\* are unequal, equal lengths are compared byte by byte.
timingSafeEqual(a, b) ==
    LET ab == IF TruthyStr(a) THEN a[1] ELSE <<>>
        bb == IF TruthyStr(b) THEN b[1] ELSE <<>>
    IN  IF Len(ab) # Len(bb) THEN FALSE ELSE cryptoTimingSafeEqual(ab, bb)

\* ------------------------------------------------------- note attributes

\* An attribute is {name, value}.  NoName stands for a missing, null or empty
\* name (all falsy), JSNull for a null or missing value.
NoName == ""
JSNull == "<null>"
Attr(n, v) == [name |-> n, value |-> v]

\* The allow-list: new Set(["Delivery-Location-Id","Delivery-Date","Checkout-Method"]).
wanted_plusGift == {"Delivery-Location-Id", "Delivery-Date", "Checkout-Method", "Gift"}

wanted == {"Delivery-Location-Id", "Delivery-Date", "Checkout-Method"}

\* array.filter(pred) for pred given as the set of names it keeps.
RECURSIVE filter(_, _)
filter(list, keep) ==
    IF list = <<>> THEN <<>>
    ELSE IF Head(list).name \in keep
         THEN <<Head(list)>> \o filter(Tail(list), keep)
         ELSE filter(Tail(list), keep)

\* out.forEach((a, i) => a?.name && idx.set(a.name, i)) then idx.get(name):
\* the index of the last entry of `existing` with that name, 0 for none.
idxGet(existing, name) ==
    LET at == {j \in 1 .. Len(existing) :
                  existing[j].name # NoName /\ existing[j].name = name}
    IN  IF at = {} THEN 0 ELSE CHOOSE j \in at : \A k \in at : k <= j

\* { name: a.name, value: a.value ?? "" }
upserted(a) == Attr(a.name, IF a.value = JSNull THEN "" ELSE a.value)

\* The loop of mergeNoteAttributes over `incoming`; idx was built from
\* `existing` before the loop and is not updated by the loop's pushes.
RECURSIVE mergeLoop(_, _, _)
mergeLoop(out, existing, incoming) ==
    IF incoming = <<>> THEN out
    ELSE LET a == Head(incoming)
             i == idxGet(existing, a.name)
         IN  IF a.name = NoName THEN mergeLoop(out, existing, Tail(incoming))
             ELSE IF i = 0
                  THEN mergeLoop(Append(out, upserted(a)), existing, Tail(incoming))
                  ELSE mergeLoop([out EXCEPT ![i] = upserted(a)], existing, Tail(incoming))

RECURSIVE namedOnly(_)
namedOnly(list) ==
    IF list = <<>> THEN <<>>
    ELSE IF Head(list).name = NoName THEN namedOnly(Tail(list))
         ELSE <<upserted(Head(list))>> \o namedOnly(Tail(list))

mergeNoteAttributes_appendAll(existing, incoming) == existing \o namedOnly(incoming)

mergeNoteAttributes_prepend(existing, incoming) ==
    LET m == mergeLoop(existing, existing, incoming)
    IN  SubSeq(m, Len(existing) + 1, Len(m)) \o SubSeq(m, 1, Len(existing))

mergeNoteAttributes(existing, incoming) == mergeLoop(existing, existing, incoming)

\* JSON.stringify of a list of attributes, as its sequence of tokens.
RECURSIVE JSONstringify(_)
JSONstringify(list) ==
    IF list = <<>> THEN <<>>
    ELSE <<"{", "name", Head(list).name, "value", Head(list).value, "}">>
         \o JSONstringify(Tail(list))

differs_always(a1, a2) == TRUE

differs_length(a1, a2) == Len(a1) # Len(a2)

differs(a1, a2) == JSONstringify(a1) # JSONstringify(a2)

\* ------------------------------------------------------------------ tags

UpperCase == <<"A", "B", "C", "D", "E", "F", "G", "H", "I", "J", "K", "L", "M",
               "N", "O", "P", "Q", "R", "S", "T", "U", "V", "W", "X", "Y", "Z">>
LowerCase == <<"a", "b", "c", "d", "e", "f", "g", "h", "i", "j", "k", "l", "m",
               "n", "o", "p", "q", "r", "s", "t", "u", "v", "w", "x", "y", "z">>

\* String.prototype.toLowerCase
toLowerCase_asIs(s) == s

toLowerCase(s) ==
    [j \in 1 .. Len(s) |->
        IF \E k \in 1 .. 26 : UpperCase[k] = s[j]
        THEN LowerCase[CHOOSE k \in 1 .. 26 : UpperCase[k] = s[j]]
        ELSE s[j]]

\* String.prototype.includes
includes(s, sub) ==
    \E k \in 0 .. (Len(s) - Len(sub)) : SubSeq(s, k + 1, k + Len(sub)) = sub

Marker == <<"s", "a", "m", "i", "t", "a", "-", "w", "h", "o", "l", "e", "s", "a", "l", "e">>

TagsRetail == <<"r", "e", "t", "a", "i", "l">>
TagsSamita == <<"W", "h", "o", "l", "e", "s", "a", "l", "e", ",", " ",
                "S", "A", "M", "I", "T", "A", "-", "W", "h", "o", "l", "e", "s", "a", "l", "e">>

\* (fullOrder?.order?.tags || "").toLowerCase().includes("samita-wholesale")
isSamita(tags) ==
    includes(toLowerCase(IF tags = Undefined THEN <<>> ELSE tags[1]), Marker)

\* ------------------------------------------------------------ the shop

\* Attributes the shop may hold on an order or a draft.
ShopNames == {"Delivery-Date", "Checkout-Method", "Gift"}
ShopValues == {"a", "b"}
ShopAttrs == {Attr(n, v) : n \in ShopNames, v \in ShopValues}
AttrLists == SeqsUpTo(ShopAttrs, MaxAttrs)

\* fullOrder.order.tags: absent, without the marker, with it in mixed case.
ShopTags == {Undefined, Some(TagsRetail), Some(TagsSamita)}

\* The `order` object of GET /orders/{id}.json.
ShopOrders ==
    [draft_order_id : {Undefined, Some("7")},
     tags : ShopTags,
     note_attributes : AttrLists]

\* An outbound call: fetch(`https://${env.SHOP_DOMAIN}${path}`, {method, body}),
\* with the id its path carries.  `outcome` records how the call ended:
\* "pending" until then.
shopifyGET(resource, id) ==
    [method |-> "GET", resource |-> resource, id |-> id, body |-> Undefined,
     outcome |-> "pending"]

shopifyPUT(resource, id, attrs) ==
    [method |-> "PUT", resource |-> resource, id |-> id,
     body |-> Some([id |-> id, note_attributes |-> attrs]), outcome |-> "pending"]

\* How a fetch ends: a success status, a non-success status, or a rejection
\* (of fetch itself or of reading the response as JSON).
Outcomes == {"ok", "fail", "throw"}

\* ------------------------------------------------------------- requests

Methods == {"POST", "GET"}
Requests == [method : Methods, body : Bodies, hmacHeader : Headers]
NoRequest == [method |-> "", body |-> <<>>, hmacHeader |-> Undefined]

\* ------------------------------------------------------------------ state

VARIABLES
    variant,     \* which revision of the handler is deployed: "plain" or "tagged"
    secret,      \* process.env.WEBHOOK_SECRET
    shop,        \* the shop's order and draft, once the Admin API has served them
    pc,          \* pc[i]: where invocation i of the handler stands
    req,         \* req[i]: the request of invocation i
    res,         \* res[i]: the responses invocation i has sent
    calls,       \* calls[i]: the outbound calls invocation i has issued
    fullOrder,   \* fullOrder[i]: the order as invocation i fetched it
    draftAttrs,  \* draftAttrs[i]: the filtered attributes of the draft
    merged,      \* merged[i]: the result of mergeNoteAttributes
    mE,          \* mergeNoteAttributes on its own: the first argument
    mD,          \*                                 the second argument
    mOut,        \*                                 the results of its calls
    writes       \* the writes of the order's note_attributes that reached the
                 \* shop, oldest first, each with its writer: an invocation,
                 \* 0 for the list the order had at first, or OtherClient

vars == <<variant, secret, shop, pc, req, res, calls, fullOrder, draftAttrs,
          merged, mE, mD, mOut, writes>>

env == <<variant, secret>>
mergeVars == <<mE, mD, mOut>>
locals == <<fullOrder, draftAttrs, merged>>

Variants == {"plain", "tagged"}

Idle ==
    /\ pc = [i \in Invs |-> "idle"]
    /\ req = [i \in Invs |-> NoRequest]
    /\ res = [i \in Invs |-> <<>>]
    /\ calls = [i \in Invs |-> <<>>]
    /\ fullOrder = [i \in Invs |-> Undefined]
    /\ draftAttrs = [i \in Invs |-> Undefined]
    /\ merged = [i \in Invs |-> Undefined]

\* The handler is deployed with some secret; nothing has been delivered and
\* nothing of the shop has been served yet.  What the shop holds is not
\* decided by this repository: a resource takes one value of the bounded
\* set when it is first served (ServedOrders, ServedDrafts) and keeps it
\* until a PUT replaces it.
Init ==
    /\ variant \in Variants
    /\ secret \in Secrets
    /\ shop = [order |-> Undefined, draft |-> Undefined]
    /\ Idle
    /\ mE = <<>> /\ mD = <<>> /\ mOut = <<>>
    /\ writes = <<>>

\* ------------------------------------------------------------ the handler

\* res.status(status).send(text), returned: the invocation is over.
send(i, status, text) ==
    /\ res' = [res EXCEPT ![i] = Append(@, [status |-> status, text |-> text])]
    /\ pc' = [pc EXCEPT ![i] = "done"]

\* An await rejects and nothing catches it: the invocation ends without a
\* response of the handler.
throw(i) ==
    /\ pc' = [pc EXCEPT ![i] = "thrown"]
    /\ UNCHANGED res

\* req.method !== "POST"
notPost_never(method) == FALSE

notPost(method) == method # "POST"

\* Step 1 of the handler, the HMAC check: the text of the 401 it answers, or
\* "ok" when the signature is accepted.
verifyHmac(sec, hmacHeader, raw) ==
    IF ~TruthyTxt(sec) \/ ~TruthyStr(hmacHeader) THEN "Missing secret or hmac"
    ELSE IF ~timingSafeEqual(Some(createHmac(sec[1], raw)), hmacHeader)
         THEN "Bad HMAC"
         ELSE "ok"

\* Response.ok of a fetch that resolved.
isOk_always(outcome) == TRUE

isOk(outcome) == outcome = "ok"

\* const orderId = order?.id, of the event of invocation i.
orderId(i) == JSONparse(req[i].body).id

\* if (!orderId)
noOrderId_never(id) == FALSE

noOrderId(id) == ~TruthyNum(id)

\* if (!draftId)
noDraftLink_never(o) == FALSE

noDraftLink(o) == ~TruthyNum(o.draft_order_id)

\* calls[i] with the outcome of its last call recorded.
ended(i, outcome) ==
    [calls EXCEPT ![i] = [@ EXCEPT ![Len(@)] = [@ EXCEPT !.outcome = outcome]]]

\* calls[i] with the outcome of its last call recorded and the next call issued.
endedThen(i, outcome, call) ==
    [calls EXCEPT ![i] = Append([@ EXCEPT ![Len(@)] = [@ EXCEPT !.outcome = outcome]], call)]

\* handler(req, res) is called with one of the requests rs: the method
\* check, then the wait for the body.
InvokeWith(i, rs) ==
    /\ pc[i] = "idle"
    /\ \E r \in rs :
          /\ req' = [req EXCEPT ![i] = r]
          /\ IF notPost(r.method)
             THEN send(i, 200, "OK")
             ELSE /\ pc' = [pc EXCEPT ![i] = "readBody"]
                  /\ UNCHANGED res
    /\ UNCHANGED <<env, shop, calls, locals, mergeVars, writes>>

\* handler(req, res) is called with any request.
Invoke(i) == InvokeWith(i, Requests)

\* readRawBody resolves: steps 1 and 2 of the handler, up to the GET of the order.
BodyRead(i) ==
    /\ pc[i] = "readBody"
    /\ LET raw == req[i].body
           verdict == verifyHmac(secret, req[i].hmacHeader, raw)
           order == JSONparse(raw)
       IN  IF verdict # "ok"
           THEN send(i, 401, verdict) /\ UNCHANGED calls
           ELSE IF ~order.ok
           THEN send(i, 400, "Bad JSON") /\ UNCHANGED calls
           ELSE IF noOrderId(order.id)
           THEN send(i, 200, "No order id") /\ UNCHANGED calls
           ELSE /\ calls' = [calls EXCEPT ![i] = Append(@, shopifyGET("orders", order.id))]
                /\ pc' = [pc EXCEPT ![i] = "awaitOrder"]
                /\ UNCHANGED res
    /\ UNCHANGED <<env, shop, req, locals, mergeVars, writes>>

\* readRawBody rejects (the request stream emits "error").
BodyError(i) ==
    /\ pc[i] = "readBody"
    /\ throw(i)
    /\ UNCHANGED <<env, shop, req, calls, locals, mergeVars, writes>>

\* The order the shop serves: the one it holds, or, when it has served none
\* yet, any of the bounded set (which it then holds).
ServedOrders == IF shop.order = Undefined THEN ShopOrders ELSE {shop.order[1]}
ServedDrafts == IF shop.draft = Undefined THEN AttrLists ELSE {shop.draft[1]}

\* The tag filter of the tagged revision: TRUE when the handler stops.
notSamita(o) == variant = "tagged" /\ ~isSamita(o.tags)

\* The GET of the order ends: step 3, up to the GET of the draft.
OrderResponse(i) ==
    /\ pc[i] = "awaitOrder"
    /\ \E outcome \in Outcomes, o \in ServedOrders :
          IF outcome = "throw"
          THEN /\ throw(i)
               /\ calls' = ended(i, outcome)
               /\ UNCHANGED <<shop, fullOrder>>
          ELSE IF ~isOk(outcome)
          THEN /\ send(i, 200, "GET order failed")
               /\ calls' = ended(i, outcome)
               /\ UNCHANGED <<shop, fullOrder>>
          ELSE /\ shop' = [shop EXCEPT !.order = Some(o)]
               /\ fullOrder' = [fullOrder EXCEPT ![i] = Some(o)]
               /\ IF notSamita(o)
                  THEN send(i, 200, "Not a Samita order") /\ calls' = ended(i, outcome)
                  ELSE IF noDraftLink(o)
                  THEN send(i, 200, "No draft link") /\ calls' = ended(i, outcome)
                  ELSE /\ calls' = endedThen(i, outcome,
                                             shopifyGET("draft_orders", o.draft_order_id))
                       /\ pc' = [pc EXCEPT ![i] = "awaitDraft"]
                       /\ UNCHANGED res
    /\ UNCHANGED <<env, req, draftAttrs, merged, mergeVars, writes>>

\* The GET of the draft ends: steps 4 and 5, up to the PUT.
DraftResponse(i) ==
    /\ pc[i] = "awaitDraft"
    /\ \E outcome \in Outcomes, d \in ServedDrafts :
          IF outcome = "throw"
          THEN /\ throw(i)
               /\ calls' = ended(i, outcome)
               /\ UNCHANGED <<shop, draftAttrs, merged>>
          ELSE IF ~isOk(outcome)
          THEN /\ send(i, 200, "GET draft failed")
               /\ calls' = ended(i, outcome)
               /\ UNCHANGED <<shop, draftAttrs, merged>>
          ELSE LET attrs == filter(d, wanted)
                   existing == fullOrder[i][1].note_attributes
                   m == mergeNoteAttributes(existing, attrs)
               IN  /\ shop' = [shop EXCEPT !.draft = Some(d)]
                   /\ draftAttrs' = [draftAttrs EXCEPT ![i] = Some(attrs)]
                   /\ IF Len(attrs) = 0
                      THEN /\ send(i, 200, "No Zapiet attrs on draft")
                           /\ calls' = ended(i, outcome)
                           /\ UNCHANGED merged
                      ELSE /\ merged' = [merged EXCEPT ![i] = Some(m)]
                           /\ IF ~differs(existing, m)
                              THEN /\ send(i, 200, "No changes needed")
                                   /\ calls' = ended(i, outcome)
                              ELSE /\ calls' = endedThen(i, outcome,
                                                    shopifyPUT("orders", orderId(i), m))
                                   /\ pc' = [pc EXCEPT ![i] = "awaitPut"]
                                   /\ UNCHANGED res
    /\ UNCHANGED <<env, req, fullOrder, mergeVars, writes>>

\* A write of the order's note_attributes that reached the shop.
Write(by, list) == [by |-> by, list |-> list]

\* The shop after it applied the PUT of invocation i: the list of the body
\* replaces the order's, whatever the order holds by then.
applyPut_ifUnchanged(i) ==
    IF shop.order[1].note_attributes = fullOrder[i][1].note_attributes
    THEN [shop EXCEPT !.order =
             Some([@[1] EXCEPT !.note_attributes =
                      calls[i][Len(calls[i])].body[1].note_attributes])]
    ELSE shop

applyPut(i) ==
    [shop EXCEPT !.order =
        Some([@[1] EXCEPT !.note_attributes =
                 calls[i][Len(calls[i])].body[1].note_attributes])]

\* The response after the PUT resolved: if (!uResp.ok) only logs, and
\* res.status(200).send("Done") follows in both cases.
putResult_surfaced(outcome) ==
    IF outcome = "ok" THEN [status |-> 200, text |-> "Done"]
                      ELSE [status |-> 502, text |-> "PUT failed"]

putResult(outcome) == [status |-> 200, text |-> "Done"]

\* The PUT ends: the handler answers 200 whatever the status.  A PUT whose
\* fetch rejects may or may not have reached the shop.
PutResponse(i) ==
    /\ pc[i] = "awaitPut"
    /\ \E outcome \in Outcomes, applied \in BOOLEAN :
          /\ calls' = ended(i, outcome)
          /\ shop' = IF applied THEN applyPut(i) ELSE shop
          /\ writes' = IF applied
                       THEN Append(writes, Write(i, calls[i][Len(calls[i])].body[1].note_attributes))
                       ELSE writes
          /\ IF outcome = "throw"
             THEN throw(i)
             ELSE /\ applied = (outcome = "ok")
                  /\ send(i, putResult(outcome).status, putResult(outcome).text)
    /\ UNCHANGED <<env, req, locals, mergeVars>>

\* One delivery of the webhook.
handler(i) ==
    \/ Invoke(i)
    \/ BodyRead(i)
    \/ BodyError(i)
    \/ OrderResponse(i)
    \/ DraftResponse(i)
    \/ PutResponse(i)

Next == handler(1)

Spec == Init /\ [][Next]_vars

\* -------------------------------------- deliveries that share one order

\* The order and the draft that the deliveries share: the order links to its
\* draft and carries the tag of the tagged revision; its list holds a
\* delivery date and an attribute outside the allow-list, the draft's list
\* holds delivery dates, the same as the order's or another, once or twice.
SharedOrderLists == SeqsUpTo({Attr("Delivery-Date", "a"), Attr("Gift", "b")}, MaxAttrs)
SharedDraftLists == SeqsUpTo({Attr("Delivery-Date", "a"), Attr("Delivery-Date", "b")}, MaxAttrs)
SharedOrders == {o \in ShopOrders : /\ o.draft_order_id # Undefined
                                    /\ o.tags = Some(TagsSamita)
                                    /\ o.note_attributes \in SharedOrderLists}

\* The event orders/create of order 1, signed under the secret sec.
Event(sec) ==
    [method |-> "POST", body |-> BodyOrder1,
     hmacHeader |-> Some(createHmac(sec, BodyOrder1))]

\* The shop holds the order and its draft, and the secret is configured.
InitShared ==
    /\ variant \in Variants
    /\ secret = Some("s1")
    /\ \E o \in SharedOrders, d \in SharedDraftLists :
          /\ shop = [order |-> Some(o), draft |-> Some(d)]
          /\ writes = <<Write(0, o.note_attributes)>>
    /\ Idle
    /\ mE = <<>> /\ mD = <<>> /\ mOut = <<>>

\* Shopify delivers the event (again): one more invocation of the handler.
Deliver(i) == InvokeWith(i, {Event(secret[1])})

\* One delivery of the event.
delivery(i) ==
    \/ Deliver(i)
    \/ BodyRead(i)
    \/ BodyError(i)
    \/ OrderResponse(i)
    \/ DraftResponse(i)
    \/ PutResponse(i)

\* The deliveries of the one event, each at its own pace.
NextConc == \E i \in Invs : delivery(i)

SpecConc == InitShared /\ [][NextConc]_vars

\* Another client of the Admin API replaces the order's note_attributes.
OtherClient == NumInv + 1
OtherLists == SeqsUpTo({Attr("Delivery-Date", "b"), Attr("Gift", "b")}, MaxOther)

OtherWrite ==
    /\ Cardinality({k \in 1 .. Len(writes) : writes[k].by = OtherClient}) < MaxOther
    /\ \E list \in OtherLists :
          /\ list # shop.order[1].note_attributes
          /\ shop' = [shop EXCEPT !.order = Some([@[1] EXCEPT !.note_attributes = list])]
          /\ writes' = Append(writes, Write(OtherClient, list))
    /\ UNCHANGED <<env, pc, req, res, calls, locals, mergeVars>>

\* One delivery, and the other client writing at any moment of it.
NextRace == delivery(1) \/ OtherWrite

SpecRace == InitShared /\ [][NextRace]_vars

\* ------------------------------------------- mergeNoteAttributes on its own

\* Arguments of mergeNoteAttributes: attributes with and without a name, with
\* and without a value.
MergeNames == {"Delivery-Date", "Gift", NoName}
MergeValues == {"a", "b", JSNull}
MergeAttrs == {Attr(n, v) : n \in MergeNames, v \in MergeValues}
MergeLists == SeqsUpTo(MergeAttrs, MaxLen)

InitMerge ==
    /\ variant = "plain"
    /\ secret = Undefined
    /\ shop = [order |-> Undefined, draft |-> Undefined]
    /\ Idle
    /\ mE \in MergeLists
    /\ mD \in MergeLists
    /\ mOut = <<>>
    /\ writes = <<>>

\* mergeNoteAttributes(mE, mD), then mergeNoteAttributes of its result and mD.
MergeCall ==
    /\ Len(mOut) < 2
    /\ mOut' = Append(mOut, mergeNoteAttributes(IF mOut = <<>> THEN mE ELSE mOut[Len(mOut)], mD))
    /\ UNCHANGED <<env, shop, pc, req, res, calls, locals, mE, mD, writes>>

NextMerge == MergeCall

SpecMerge == InitMerge /\ [][NextMerge]_vars

\* ======================================================================
\* Properties
\* ======================================================================

\* The allow-list as the specification gives it.
AllowListed == {"Delivery-Location-Id", "Delivery-Date", "Checkout-Method"}

\* The signature of the request of invocation i is the one its body has under
\* the configured secret, and that secret is set and not empty.
SignatureValid(i) ==
    /\ secret # Undefined
    /\ secret[1] # ""
    /\ req[i].hmacHeader # Undefined
    /\ req[i].hmacHeader[1] # <<>>
    /\ req[i].hmacHeader[1] = createHmac(secret[1], req[i].body)

\* Invocation i is a POST whose body has been read.
BodyWasRead(i) ==
    /\ req[i].method = "POST"
    /\ pc[i] \notin {"idle", "readBody"}
    /\ ~(pc[i] = "thrown" /\ calls[i] = <<>>)

Status(i) == res[i][Len(res[i])].status

\* C1: a POST whose signature check must fail (secret unset or empty, header
\* missing or empty, header different from the digest of the body, different
\* lengths included) is answered 401 once its body has been read and issues no
\* outbound call; an invocation that has issued a call carries a valid signature.
C1_AuthFailsClosed ==
    \A i \in Invs :
        /\ (req[i].method = "POST" /\ ~SignatureValid(i)) =>
              /\ calls[i] = <<>>
              /\ BodyWasRead(i) => (pc[i] = "done" /\ Len(res[i]) = 1 /\ Status(i) = 401)
        /\ calls[i] # <<>> => SignatureValid(i)

\* C1 witness: a header that is the right digest followed by one more
\* character has been answered 401.
C1_Witness ==
    \E i \in Invs :
        /\ pc[i] = "done"
        /\ req[i].method = "POST"
        /\ secret = Some("s1")
        /\ req[i].hmacHeader = Some(Append(createHmac("s1", req[i].body), 0))
        /\ Status(i) = 401
        /\ calls[i] = <<>>

\* The header of invocation i is the MAC of its body under the configured secret.
HeaderIsMac(i) ==
    /\ secret # Undefined
    /\ req[i].hmacHeader # Undefined
    /\ req[i].hmacHeader[1] = createHmac(secret[1], req[i].body)

\* Invocation i passed authentication: its body was read and it was not
\* answered 401.
Accepted(i) == BodyWasRead(i) /\ ~(res[i] # <<>> /\ Status(i) = 401)

\* Two bodies of the same length that differ in exactly one byte.
OneByteApart(a, b) ==
    /\ Len(a) = Len(b)
    /\ Cardinality({j \in 1 .. Len(a) : a[j] # b[j]}) = 1

\* C2 as stated: a POST passes authentication if and only if its header
\* equals the MAC of its body under the secret, for any secret.
C2_AcceptedIffMacAnySecret ==
    \A i \in Invs : BodyWasRead(i) => (Accepted(i) <=> HeaderIsMac(i))

\* C2 amended: a POST passes authentication if and only if the secret is not
\* empty and its header equals the MAC of its body under the secret; and
\* with the header and secret of an accepted request, no body one byte away
\* from the accepted one passes the check.
C2_AcceptedIffMac ==
    \A i \in Invs :
        /\ BodyWasRead(i) => (Accepted(i) <=> SignatureValid(i))
        /\ Accepted(i) =>
              \A b \in Bodies :
                  OneByteApart(b, req[i].body) =>
                      verifyHmac(secret, req[i].hmacHeader, b) # "ok"

\* C2 witness: a request has been accepted whose body has a neighbour one
\* byte away.
C2_Witness ==
    \E i \in Invs :
        /\ Accepted(i)
        /\ pc[i] = "awaitOrder"
        /\ \E b \in Bodies : OneByteApart(b, req[i].body)

\* C3 as stated: every invocation whose request was read ends with exactly
\* one response, of status 200, 401 or 400: 401 exactly when authentication
\* fails, 400 exactly when the authenticated body is not JSON, 200 otherwise.
C3_EndsWith200Or401Or400 ==
    \A i \in Invs :
        (pc[i] \in {"done", "thrown"} /\ ~(pc[i] = "thrown" /\ calls[i] = <<>>)) =>
            /\ Len(res[i]) = 1
            /\ Status(i) \in {200, 401, 400}
            /\ Status(i) = 401 <=> (req[i].method = "POST" /\ ~SignatureValid(i))
            /\ Status(i) = 400 <=>
                  (req[i].method = "POST" /\ SignatureValid(i) /\ ~JSONparse(req[i].body).ok)

\* The fixed sequence of outbound calls.
CallOrder == <<<<"GET", "orders">>, <<"GET", "draft_orders">>, <<"PUT", "orders">>>>

\* C4: the calls of an invocation are a prefix of GET order, GET draft, PUT
\* order, and every call but the last one issued has ended with a success
\* status: nothing follows a failed call and no call is issued twice.
C4_CallsArePrefix ==
    \A i \in Invs :
        /\ Len(calls[i]) <= Len(CallOrder)
        /\ \A k \in 1 .. Len(calls[i]) :
              /\ <<calls[i][k].method, calls[i][k].resource>> = CallOrder[k]
              /\ k < Len(calls[i]) => calls[i][k].outcome = "ok"

\* C4 witness: an invocation has issued all three calls and has ended.
C4_Witness ==
    \E i \in Invs : Len(calls[i]) = 3 /\ pc[i] = "done"

\* The value an upsert stores for v: "" for a null or missing value.
Stored(v) == IF v = JSNull THEN "" ELSE v

\* The stored value of the last entry of list with name n.
LastValue(list, n) ==
    LET at == {k \in 1 .. Len(list) : list[k].name = n}
        last == CHOOSE k \in at : \A k2 \in at : k2 <= k
    IN  Stored(list[last].value)

NamesOf(list) == {list[k].name : k \in 1 .. Len(list)} \ {NoName}

\* The named entries of list whose name is not in `known`, as an upsert
\* stores them, in their order.
NewEntries(list, known) ==
    LET sel == SelectSeq(list, LAMBDA a : a.name # NoName /\ a.name \notin known)
    IN  IF sel = <<>> THEN <<>>
        ELSE [k \in 1 .. Len(sel) |-> Attr(sel[k].name, Stored(sel[k].value))]

\* C5: in mergeNoteAttributes(existing, incoming) every existing entry keeps
\* its index and name; an existing entry whose name occurs in incoming holds
\* the value of the last incoming entry with that name (the last such existing
\* entry, when existing repeats the name) and every other existing entry is
\* unchanged; the incoming entries with a new name follow the existing ones,
\* in their order.  The two examples of the specification come out as given.
C5_MergeUpsertsInPlace ==
    /\ mOut # <<>> =>
          LET out == mOut[1]
          IN  /\ Len(out) >= Len(mE)
              /\ \A j \in 1 .. Len(mE) :
                    /\ out[j].name = mE[j].name
                    /\ IF /\ mE[j].name \in NamesOf(mD)
                          /\ \A j2 \in (j + 1) .. Len(mE) : mE[j2].name # mE[j].name
                       THEN out[j].value = LastValue(mD, mE[j].name)
                       ELSE out[j] = mE[j]
              /\ SubSeq(out, Len(mE) + 1, Len(out)) = NewEntries(mD, NamesOf(mE))
    /\ mergeNoteAttributes(<<Attr("Gift", "yes")>>, <<Attr("Delivery-Date", "2024-05-01")>>)
          = <<Attr("Gift", "yes"), Attr("Delivery-Date", "2024-05-01")>>
    /\ mergeNoteAttributes(<<Attr("Delivery-Date", "old")>>, <<Attr("Delivery-Date", "new")>>)
          = <<Attr("Delivery-Date", "new")>>

\* C5 witness: a merge has both overwritten an existing entry and appended one.
C5_Witness ==
    /\ mOut # <<>>
    /\ Len(mOut[1]) > Len(mE)
    /\ \E j \in 1 .. Len(mE) : mOut[1][j] # mE[j]

\* The names of list are pairwise distinct.
DistinctNames(list) ==
    \A j, k \in 1 .. Len(list) : j # k => list[j].name # list[k].name

\* The PUT of invocation i has been issued.
HasPut(i) == \E k \in 1 .. Len(calls[i]) : calls[i][k].method = "PUT"
\* The note_attributes it writes, and the ones the invocation fetched.
Written(i) == calls[i][Len(calls[i])].body[1].note_attributes
Fetched(i) == fullOrder[i][1].note_attributes

\* C6 as stated: when the names of the fetched order's attributes are
\* pairwise distinct, so are the names of the list the PUT writes, and for each
\* allow-listed name on the draft the written list holds the value of the
\* draft's last entry with that name.
C6_WrittenNamesDistinct ==
    \A i \in Invs :
        (HasPut(i) /\ DistinctNames(Fetched(i))) =>
            /\ DistinctNames(Written(i))
            /\ \A n \in AllowListed \cap NamesOf(shop.draft[1]) :
                  /\ \E j \in 1 .. Len(Written(i)) : Written(i)[j].name = n
                  /\ \A j \in 1 .. Len(Written(i)) :
                        Written(i)[j].name = n =>
                            Written(i)[j].value = LastValue(shop.draft[1], n)

\* C7: merging the same list again changes nothing: the second result is
\* the first one, entry by entry, and differs() finds no difference.
C7_MergeIdempotent ==
    Len(mOut) = 2 => (mOut[2] = mOut[1] /\ ~differs(mOut[1], mOut[2]))

\* C7 witness: a merge that changed the existing list has been repeated.
C7_Witness == Len(mOut) = 2 /\ mOut[1] # mE /\ mD # <<>>

\* C8: the list a PUT writes keeps every fetched entry whose name is not
\* allow-listed, unchanged and at its index; every entry it adds or changes
\* has an allow-listed name; so an entry with another name is never there
\* because of the draft.
C8_OnlyAllowListedChange ==
    \A i \in Invs :
        HasPut(i) =>
            /\ Len(Written(i)) >= Len(Fetched(i))
            /\ \A j \in 1 .. Len(Fetched(i)) :
                  Fetched(i)[j].name \notin AllowListed => Written(i)[j] = Fetched(i)[j]
            /\ \A j \in 1 .. Len(Written(i)) :
                  (j > Len(Fetched(i)) \/ Written(i)[j] # Fetched(i)[j]) =>
                      Written(i)[j].name \in AllowListed
            /\ \A j \in 1 .. Len(Written(i)) :
                  Written(i)[j].name \notin AllowListed =>
                      (j <= Len(Fetched(i)) /\ Written(i)[j] = Fetched(i)[j])

\* C8 witness: a PUT was issued although the order and the draft both carry
\* an attribute outside the allow-list, with different values.
C8_Witness ==
    \E i \in Invs :
        /\ HasPut(i)
        /\ \E j \in 1 .. Len(Fetched(i)), k \in 1 .. Len(shop.draft[1]) :
              /\ Fetched(i)[j].name = "Gift"
              /\ shop.draft[1][k].name = "Gift"
              /\ shop.draft[1][k].value # Fetched(i)[j].value

\* Both GETs of invocation i ended with a success status.
BothGetsOk(i) ==
    /\ Len(calls[i]) >= 2
    /\ calls[i][1].outcome = "ok"
    /\ calls[i][2].outcome = "ok"

\* The allow-listed attributes of the draft the shop served.
FilteredDraft ==
    IF shop.draft = Undefined THEN <<>>
    ELSE SelectSeq(shop.draft[1], LAMBDA a : a.name \in AllowListed)

\* C9: a PUT is issued exactly when both GETs succeeded, the filtered draft
\* list is not empty and the merged list is not the fetched list; when the
\* two lists are the same the invocation answers 200 without a PUT; a PUT
\* carries the whole merged list, for the id of the order that was fetched.
C9_PutIffChanged ==
    \A i \in Invs :
        /\ HasPut(i) <=>
              (BothGetsOk(i) /\ FilteredDraft # <<>> /\ merged[i] # Some(Fetched(i)))
        /\ (BothGetsOk(i) /\ FilteredDraft # <<>> /\ merged[i] = Some(Fetched(i))) =>
              (pc[i] = "done" /\ Status(i) = 200 /\ ~HasPut(i))
        /\ HasPut(i) =>
              /\ calls[i][3].id = calls[i][1].id
              /\ calls[i][3].body = Some([id |-> calls[i][1].id,
                                          note_attributes |-> merged[i][1]])

\* C9 witness: both GETs succeeded and the merge changed nothing.
C9_Witness ==
    \E i \in Invs :
        /\ BothGetsOk(i)
        /\ FilteredDraft # <<>>
        /\ merged[i] = Some(Fetched(i))
        /\ pc[i] = "done"

\* C10: an invocation that fetched an order without draft_order_id has
\* answered 200 and its only call is the GET of the order.
C10_NoDraftLinkOneCall ==
    \A i \in Invs :
        (fullOrder[i] # Undefined /\ fullOrder[i][1].draft_order_id = Undefined) =>
            /\ pc[i] = "done"
            /\ Len(res[i]) = 1
            /\ Status(i) = 200
            /\ Len(calls[i]) = 1
            /\ <<calls[i][1].method, calls[i][1].resource>> = <<"GET", "orders">>

\* C10 witness: an order without draft_order_id has been fetched.
C10_Witness ==
    \E i \in Invs :
        /\ fullOrder[i] # Undefined
        /\ fullOrder[i][1].draft_order_id = Undefined
        /\ res[i] = <<[status |-> 200, text |-> "No draft link"]>>

\* The tag string carries the marker samita-wholesale in any letter case
\* (an absent tag string carries nothing).
LowerOf(c) ==
    IF \E k \in 1 .. 26 : UpperCase[k] = c
    THEN LowerCase[CHOOSE k \in 1 .. 26 : UpperCase[k] = c]
    ELSE c

CarriesMarker(tags) ==
    /\ tags # Undefined
    /\ \E k \in 0 .. (Len(tags[1]) - Len(Marker)) :
          \A j \in 1 .. Len(Marker) : LowerOf(tags[1][k + j]) = Marker[j]

\* The tag strings of the shop's orders that carry the marker.
MarkedTags == {t \in ShopTags : CarriesMarker(t)}

\* C11: in the tagged revision, an invocation that fetched an order whose
\* tags carry the marker in any letter case has gone on to the draft-link
\* step (it answered "No draft link" or issued the GET of the draft); one
\* that fetched an order with any other tags, or none, has answered 200 and
\* its only call is the GET of the order.
C11_TagFilter ==
    \A i \in Invs :
        (variant = "tagged" /\ fullOrder[i] # Undefined) =>
            IF fullOrder[i][1].tags \in MarkedTags
            THEN IF fullOrder[i][1].draft_order_id = Undefined
                 THEN pc[i] = "done" /\ res[i] = <<[status |-> 200, text |-> "No draft link"]>>
                 ELSE /\ Len(calls[i]) >= 2
                      /\ <<calls[i][2].method, calls[i][2].resource>> = <<"GET", "draft_orders">>
            ELSE /\ pc[i] = "done"
                 /\ Len(res[i]) = 1
                 /\ Status(i) = 200
                 /\ Len(calls[i]) = 1

\* C11 witness: the tagged revision fetched an order tagged
\* "Wholesale, SAMITA-Wholesale" and issued the GET of its draft.
C11_Witness ==
    \E i \in Invs :
        /\ variant = "tagged"
        /\ fullOrder[i] # Undefined
        /\ fullOrder[i][1].tags = Some(TagsSamita)
        /\ Len(calls[i]) >= 2

\* C12: an invocation whose GET of the order ended with a non-success status
\* has answered 200 and that GET is its only call; one whose GET of the draft
\* ended with a non-success status has answered 200 and its calls are the
\* two GETs, each issued once.
C12_FailedGetEnds ==
    \A i \in Invs :
        /\ (Len(calls[i]) >= 1 /\ calls[i][1].outcome = "fail") =>
              /\ pc[i] = "done"
              /\ Len(res[i]) = 1
              /\ Status(i) = 200
              /\ Len(calls[i]) = 1
        /\ (Len(calls[i]) >= 2 /\ calls[i][2].outcome = "fail") =>
              /\ pc[i] = "done"
              /\ Len(res[i]) = 1
              /\ Status(i) = 200
              /\ Len(calls[i]) = 2
              /\ ~HasPut(i)
              /\ calls[i][1].resource # calls[i][2].resource

\* C12 witness: the GET of the draft has failed after the GET of the order
\* succeeded, and the invocation has ended.
C12_Witness ==
    \E i \in Invs :
        /\ Len(calls[i]) = 2
        /\ calls[i][1].outcome = "ok"
        /\ calls[i][2].outcome = "fail"
        /\ pc[i] = "done"

\* C13: an invocation whose PUT returned, with a success status or not, has
\* answered 200 once, and that PUT is its third and last call.
C13_PutOutcomeNotSurfaced ==
    \A i \in Invs :
        (HasPut(i) /\ calls[i][Len(calls[i])].outcome \in {"ok", "fail"}) =>
            /\ pc[i] = "done"
            /\ Len(res[i]) = 1
            /\ Status(i) = 200
            /\ Len(calls[i]) = 3
            /\ Cardinality({k \in 1 .. Len(calls[i]) : calls[i][k].method = "PUT"}) = 1

\* C13 witness: a PUT has ended with a non-success status.
C13_Witness ==
    \E i \in Invs :
        /\ HasPut(i)
        /\ calls[i][3].outcome = "fail"
        /\ pc[i] = "done"

\* C14: an invocation whose request is not a POST has answered 200 "OK" and
\* has done nothing else: no outbound call, nothing fetched or merged, the
\* shop as it was.
C14_NonPostNoEffect ==
    \A i \in Invs :
        (pc[i] # "idle" /\ req[i].method # "POST") =>
            /\ pc[i] = "done"
            /\ res[i] = <<[status |-> 200, text |-> "OK"]>>
            /\ calls[i] = <<>>
            /\ fullOrder[i] = Undefined /\ draftAttrs[i] = Undefined /\ merged[i] = Undefined
            /\ shop = [order |-> Undefined, draft |-> Undefined]

\* C14 witness: a GET request that carries an order event and its valid
\* signature has been answered.
C14_Witness ==
    \E i \in Invs :
        /\ pc[i] = "done"
        /\ req[i].method = "GET"
        /\ req[i].body = BodyOrder1
        /\ SignatureValid(i)

\* C16: an invocation whose two GETs succeeded and whose draft carries no
\* allow-listed attribute has answered 200 and has issued no PUT.
C16_NoAllowListedNoPut ==
    \A i \in Invs :
        (BothGetsOk(i) /\ FilteredDraft = <<>>) =>
            /\ pc[i] = "done"
            /\ Len(res[i]) = 1
            /\ Status(i) = 200
            /\ ~HasPut(i)
            /\ Len(calls[i]) = 2

\* C16 witness: the draft carries only attributes outside the allow-list, the
\* order carries attributes, and the invocation has ended.
C16_Witness ==
    \E i \in Invs :
        /\ BothGetsOk(i)
        /\ shop.draft # Undefined
        /\ shop.draft[1] # <<>>
        /\ FilteredDraft = <<>>
        /\ Fetched(i) # <<>>
        /\ pc[i] = "done"

\* An order id the handler takes as missing: absent, null, 0 or "".
MissingId == {Undefined, Some("null"), Some("0"), Some("\"\"")}

\* C20: a POST with a valid signature whose body is JSON without an order
\* id (absent, null, 0 or empty) has been answered 200 once its body was
\* read, and has issued no outbound call.
C20_NoIdNoCall ==
    \A i \in Invs :
        (req[i].method = "POST" /\ SignatureValid(i)
            /\ JSONparse(req[i].body).ok /\ JSONparse(req[i].body).id \in MissingId) =>
            /\ calls[i] = <<>>
            /\ BodyWasRead(i) => (pc[i] = "done" /\ Len(res[i]) = 1 /\ Status(i) = 200)

\* C20 witness: a signed event whose id is the empty string has been answered.
C20_Witness ==
    \E i \in Invs :
        /\ req[i].method = "POST"
        /\ SignatureValid(i)
        /\ req[i].body = BodyIdEmpty
        /\ pc[i] = "done"
        /\ Status(i) = 200

\* C17 as stated: an invocation that has stopped has sent exactly one
\* response; no invocation has sent two responses, and none has a call in
\* flight after it responded.
C17_OneResponseThenStops ==
    \A i \in Invs :
        /\ Len(res[i]) <= 1
        /\ res[i] # <<>> =>
              /\ pc[i] = "done"
              /\ \A k \in 1 .. Len(calls[i]) : calls[i][k].outcome # "pending"
        /\ (pc[i] = "thrown" /\ calls[i] # <<>>) => Len(res[i]) = 1

\* The list invocation i computes from its own GETs: the merge of the
\* allow-listed attributes of the draft into the order as i fetched it.
OwnMerge(i) == mergeNoteAttributes(Fetched(i), FilteredDraft)

\* The list the shop holds for the order.
ShopList == shop.order[1].note_attributes

\* Invocation i receives the success status of its PUT in this step.
PutLands(i) ==
    /\ pc[i] = "awaitPut"
    /\ pc'[i] = "done"
    /\ calls'[i][Len(calls'[i])].outcome = "ok"

\* C15: a PUT carries the list the invocation computed from its own GET of
\* the order; when it succeeds the shop holds exactly that list, whatever the
\* order held just before, and the invocation answers 200 "Done" (no conflict
\* is detected); the shop always holds the list of the last write that
\* reached it.
C15_LastWriteWins ==
    /\ [](\A i \in Invs : HasPut(i) => Written(i) = OwnMerge(i))
    /\ [](ShopList = writes[Len(writes)].list)
    /\ [][\A i \in Invs :
             PutLands(i) =>
                 /\ ShopList' = Written(i)
                 /\ res'[i] = <<[status |-> 200, text |-> "Done"]>>]_vars

\* C15 witness: the other client wrote a list that differs from the one the
\* invocation had fetched, then the PUT of the invocation succeeded and
\* replaced it with a list that lacks an attribute the other client had set.
C15_Witness ==
    \E i \in Invs, k \in 1 .. Len(writes) - 1 :
        /\ HasPut(i)
        /\ writes[k].by = OtherClient
        /\ writes[k].list # Fetched(i)
        /\ writes[k + 1] = Write(i, Written(i))
        /\ \E j \in 1 .. Len(writes[k].list) :
              \A m \in 1 .. Len(Written(i)) : Written(i)[m] # writes[k].list[j]
        /\ ShopList = Written(i)
        /\ calls[i][3].outcome = "ok"
        /\ pc[i] = "done"
        /\ Status(i) = 200

\* No other client has written the order.
OnlyDeliveries == \A k \in 1 .. Len(writes) : writes[k].by # OtherClient

\* C18: when an invocation's PUT succeeded and another delivery of the event
\* fetches the list that PUT wrote, and the draft, then its merge result is
\* that same list, it answers 200 and it issues no PUT.
C18_RedeliveryNoOp ==
    \A i \in Invs : \A j \in Invs \ {i} :
        (/\ HasPut(i) /\ calls[i][3].outcome = "ok"
         /\ BothGetsOk(j)
         /\ Fetched(j) = Written(i)) =>
            /\ merged[j] = Some(Fetched(j))
            /\ ~HasPut(j)
            /\ pc[j] = "done"
            /\ res[j] = <<[status |-> 200, text |-> "No changes needed"]>>

\* C18 witness: a second delivery started after the first had ended with a
\* successful PUT, fetched the written list and ended without a PUT.
C18_Witness ==
    \E i \in Invs : \E j \in Invs \ {i} :
        /\ HasPut(i) /\ calls[i][3].outcome = "ok"
        /\ Len(writes) = 2
        /\ writes[1].list # writes[2].list
        /\ BothGetsOk(j)
        /\ Fetched(j) = Written(i)
        /\ Fetched(j) # writes[1].list
        /\ merged[j] = Some(Fetched(j))
        /\ pc[j] = "done"

\* C19: with no other writer, every PUT of every delivery carries
\* mergeNoteAttributes(E, D) for the list E the order had at first and the
\* filtered draft list D, and the shop holds E or mergeNoteAttributes(E, D)
\* at every moment, hence once all deliveries have finished.
C19_DeliveriesConverge ==
    LET E == writes[1].list
        D == FilteredDraft
    IN  OnlyDeliveries =>
            /\ \A i \in Invs : HasPut(i) => Written(i) = mergeNoteAttributes(E, D)
            /\ ShopList \in {E, mergeNoteAttributes(E, D)}
            /\ \A k \in 2 .. Len(writes) : writes[k].list = mergeNoteAttributes(E, D)

\* C19 witness: two deliveries both fetched the order before either wrote it,
\* both PUTs succeeded, and both have finished.
C19_Witness ==
    /\ OnlyDeliveries
    /\ Len(writes) = 3
    /\ writes[2].by # writes[3].by
    /\ \A i \in {writes[2].by, writes[3].by} :
          /\ Fetched(i) = writes[1].list
          /\ calls[i][3].outcome = "ok"
          /\ pc[i] = "done"
    /\ ShopList # writes[1].list

====
